---- MODULE Spec2Model ----
(***************************************************************************)
(* s_app_dir: per-application standard directories (src/src/lib.rs).       *)
(*                                                                         *)
(* An OS string is a finite sequence of symbols.  Every symbol is one      *)
(* character, except "C:" (a Windows drive prefix, kept as one symbol) and *)
(* "0xFF" (one byte that is not valid Unicode).  A path is the OS string   *)
(* it is stored as, so equality of paths is equality of their text.        *)
(***************************************************************************)
EXTENDS Naturals, Sequences, FiniteSets

VARIABLES
    platform,   \* "unix" | "windows": which cfg(...) variant was compiled
    app_name,   \* AppDir.app_name
    given,      \* the argument new() was called with
    env,        \* the process environment: key -> Unset | Set(os string)
    home,       \* what std::env::home_dir() reports: None | Some(path)
    tmp,        \* what std::env::temp_dir() reports: a path
    op,         \* the last resolver call made on the handle
    ret,        \* the value that call returned
    since       \* the environment since that call: Same (unchanged), Own(old) (one
                \* write, to the variable the call's category reads, which held
                \* old), Other

vars == <<platform, app_name, given, env, home, tmp, op, ret, since>>

----------------------------------------------------------------------------
(* Bounds *)

MaxNameLen == 2

----------------------------------------------------------------------------
(* Values *)

None == <<"None">>
Some(x) == <<"Some", x>>
Ok(x) == <<"Ok", x>>
Err(e) == <<"Err", e>>
Unset == <<"Unset">>
Set(s) == <<"Set", s>>
PathVal(p) == <<"PathBuf", p>>
StrVal(s) == <<"String", s>>

XdgDir == {"Data", "Config", "Cache"}

XdgKeys == {"XDG_DATA_HOME", "XDG_CONFIG_HOME", "XDG_CACHE_HOME"}

EnvKeys == XdgKeys \cup {"APPDATA"}

Platforms == {"unix", "windows"}

StrsUpTo(alphabet, n) == UNION {[1..k -> alphabet] : k \in 0..n}

----------------------------------------------------------------------------
(* std::path, as far as the resolver uses it *)

is_sep(pf, ch) == IF pf = "unix" THEN ch = "/" ELSE ch \in {"/", "\\"}

MAIN_SEP(pf) == IF pf = "unix" THEN "/" ELSE "\\"

prefix_len(pf, p) == IF pf = "windows" /\ Len(p) > 0 /\ p[1] = "C:" THEN 1 ELSE 0

has_root(pf, p) ==
    /\ Len(p) > prefix_len(pf, p)
    /\ is_sep(pf, p[prefix_len(pf, p) + 1])

is_absolute(pf, p) ==
    IF pf = "unix" THEN has_root(pf, p)
    ELSE prefix_len(pf, p) > 0 /\ has_root(pf, p)

\* mutant of join: the argument is always appended, never replaces self
join_append(pf, self, path) ==
    IF Len(self) > 0 /\ ~is_sep(pf, self[Len(self)])
    THEN self \o <<MAIN_SEP(pf)>> \o path
    ELSE self \o path

\* PathBuf::push on a copy of self: Path::join
join(pf, self, path) ==
    LET need_sep == /\ Len(self) > 0
                    /\ ~is_sep(pf, self[Len(self)])
                    /\ ~(prefix_len(pf, self) > 0 /\ Len(self) = prefix_len(pf, self))
    IN  IF is_absolute(pf, path) \/ prefix_len(pf, path) > 0 THEN path
        ELSE IF has_root(pf, path) THEN SubSeq(self, 1, prefix_len(pf, self)) \o path
        ELSE IF need_sep THEN self \o <<MAIN_SEP(pf)>> \o path
        ELSE self \o path

\* PathBuf::new()
PathBuf_new == <<>>

----------------------------------------------------------------------------
(* std::env, as far as the resolver uses it *)

is_unicode(s) == \A i \in 1..Len(s) : s[i] # "0xFF"

\* mutant of env_var: an empty value counts as not present
env_var_nonempty(key) ==
    IF env[key] = Unset \/ env[key][2] = <<>> THEN Err("NotPresent")
    ELSE IF ~is_unicode(env[key][2]) THEN Err("NotUnicode")
    ELSE Ok(env[key][2])

\* env::var(key): Err when the variable is not present or not valid Unicode
env_var(key) ==
    IF env[key] = Unset THEN Err("NotPresent")
    ELSE IF ~is_unicode(env[key][2]) THEN Err("NotUnicode")
    ELSE Ok(env[key][2])

home_dir == home

env_temp_dir == tmp

----------------------------------------------------------------------------
(* lib.rs *)

result_to_option(result) ==
    IF result[1] = "Ok" THEN Some(result[2]) ELSE None

\* Option::or
or(a, b) == IF a # None THEN a ELSE b

\* mutant of xdg_dir_with_fallback: the Windows variant never reads key
xdg_dir_with_fallback_skip(key, fallback) ==
    LET fromEnv == IF platform = "unix" THEN result_to_option(env_var(key)) ELSE None
        primary == IF fromEnv = None THEN None
                   ELSE Some(join(platform, PathBuf_new, fromEnv[2]))
        appdata == result_to_option(env_var("APPDATA"))
        secondary ==
            IF platform = "unix"
            THEN IF home_dir = None THEN None
                 ELSE Some(join(platform, home_dir[2], fallback))
            ELSE IF appdata = None THEN None
                 ELSE Some(join(platform, PathBuf_new, appdata[2]))
    IN  or(primary, secondary)

xdg_dir_with_fallback(key, fallback) ==
    LET fromEnv == result_to_option(env_var(key))
        primary == IF fromEnv = None THEN None
                   ELSE Some(join(platform, PathBuf_new, fromEnv[2]))
        appdata == result_to_option(env_var("APPDATA"))
        secondary ==
            IF platform = "unix"
            THEN IF home_dir = None THEN None
                 ELSE Some(join(platform, home_dir[2], fallback))
            ELSE IF appdata = None THEN None
                 ELSE Some(join(platform, PathBuf_new, appdata[2]))
    IN  or(primary, secondary)

xdg_key(xdg) ==
    CASE xdg = "Data" -> "XDG_DATA_HOME"
      [] xdg = "Config" -> "XDG_CONFIG_HOME"
      [] xdg = "Cache" -> "XDG_CACHE_HOME"

\* mutant of xdg_fallback: Config and Cache exchanged
xdg_fallback_swapped(xdg) ==
    CASE xdg = "Data" -> <<".", "l", "o", "c", "a", "l", "/", "s", "h", "a", "r", "e">>
      [] xdg = "Config" -> <<".", "c", "a", "c", "h", "e">>
      [] xdg = "Cache" -> <<".", "c", "o", "n", "f", "i", "g">>

xdg_fallback(xdg) ==
    CASE xdg = "Data" -> <<".", "l", "o", "c", "a", "l", "/", "s", "h", "a", "r", "e">>
      [] xdg = "Config" -> <<".", "c", "o", "n", "f", "i", "g">>
      [] xdg = "Cache" -> <<".", "c", "a", "c", "h", "e">>

xdg_dir(xdg) ==
    LET base == xdg_dir_with_fallback(xdg_key(xdg), xdg_fallback(xdg))
    IN  IF base = None THEN None
        ELSE Some(join(platform, join(platform, PathBuf_new, base[2]), app_name))

user_data_dir ==
    IF platform = "unix"
    THEN IF home_dir = None THEN None
         ELSE Some(join(platform, home_dir[2], <<".">> \o app_name))
    ELSE LET v == result_to_option(env_var("APPDATA"))
         IN  IF v = None THEN None
             ELSE Some(join(platform, join(platform, PathBuf_new, v[2]), app_name))

\* mutant of temp_dir: the application name is not joined
temp_dir_unjoined == env_temp_dir

temp_dir == join(platform, env_temp_dir, app_name)

\* impl Display for AppDir
fmt == app_name

----------------------------------------------------------------------------
(* The inputs *)

NameAlphabet(pf) == IF pf = "unix" THEN {"/", "a"} ELSE {"\\", "C:", "a"}

AppNames(pf) == StrsUpTo(NameAlphabet(pf), MaxNameLen)

\* values a variable is set to: empty, an absolute directory, not valid Unicode
EnvValues(pf) ==
    IF pf = "unix" THEN {<<>>, <<"/", "x">>, <<"/", "0xFF">>}
    ELSE {<<>>, <<"C:", "\\", "x">>, <<"C:", "\\", "0xFF">>}

HomeDirs(pf) ==
    IF pf = "unix" THEN {None, Some(<<"/", "h">>)}
    ELSE {None, Some(<<"C:", "\\", "h">>)}

TempDirs(pf) ==
    IF pf = "unix" THEN {<<"/", "t">>, <<"/", "t", "/">>}
    ELSE {<<"C:", "\\", "t">>, <<"C:", "\\", "t", "\\">>}

NoCall == <<"none">>

Same == <<"same">>
Own(old) == <<"own", old>>
Other == <<"other">>

----------------------------------------------------------------------------
(* The state machine *)

\* AppDir::new(app_name), in a process whose environment is arbitrary
Init ==
    /\ platform \in Platforms
    /\ given \in AppNames(platform)
    /\ app_name = given
    /\ env \in [EnvKeys -> {Unset} \cup {Set(v) : v \in EnvValues(platform)}]
    /\ home \in HomeDirs(platform)
    /\ tmp \in TempDirs(platform)
    /\ op = NoCall
    /\ ret = None
    /\ since = Same

\* the history the model keeps of the environment since the last call
Changed(what) ==
    IF since = Same /\ op[1] = "xdg_dir" /\ what = xdg_key(op[2]) THEN Own(env[what])
    ELSE Other

\* env::set_var(key, value)
set_var(key, value) ==
    /\ env[key] # Set(value)
    /\ env' = [env EXCEPT ![key] = Set(value)]
    /\ since' = Changed(key)
    /\ UNCHANGED <<platform, app_name, given, home, tmp, op, ret>>

\* env::remove_var(key)
remove_var(key) ==
    /\ env[key] # Unset
    /\ env' = [env EXCEPT ![key] = Unset]
    /\ since' = Changed(key)
    /\ UNCHANGED <<platform, app_name, given, home, tmp, op, ret>>

\* the home directory the platform reports changes
change_home(h) ==
    /\ home # h
    /\ home' = h
    /\ since' = Changed("home")
    /\ UNCHANGED <<platform, app_name, given, env, tmp, op, ret>>

\* mutant of call_xdg_dir: the value of the previous call for the same
\* category is kept and returned again
call_xdg_dir_cached(xdg) ==
    /\ op' = <<"xdg_dir", xdg>>
    /\ ret' = IF op = <<"xdg_dir", xdg>> THEN ret ELSE xdg_dir(xdg)
    /\ since' = Same
    /\ UNCHANGED <<platform, app_name, given, env, home, tmp>>

\* mutant of call_xdg_dir: the resolved directory is exported to the
\* category's variable
call_xdg_dir_exporting(xdg) ==
    /\ op' = <<"xdg_dir", xdg>>
    /\ ret' = xdg_dir(xdg)
    /\ since' = Same
    /\ env' = IF xdg_dir(xdg) = None THEN env
              ELSE [env EXCEPT ![xdg_key(xdg)] = Set(xdg_dir(xdg)[2])]
    /\ UNCHANGED <<platform, app_name, given, home, tmp>>

call_xdg_dir(xdg) ==
    /\ op' = <<"xdg_dir", xdg>>
    /\ ret' = xdg_dir(xdg)
    /\ since' = Same
    /\ UNCHANGED <<platform, app_name, given, env, home, tmp>>

call_user_data_dir ==
    /\ op' = <<"user_data_dir">>
    /\ ret' = user_data_dir
    /\ since' = Same
    /\ UNCHANGED <<platform, app_name, given, env, home, tmp>>

call_temp_dir ==
    /\ op' = <<"temp_dir">>
    /\ ret' = PathVal(temp_dir)
    /\ since' = Same
    /\ UNCHANGED <<platform, app_name, given, env, home, tmp>>

call_fmt ==
    /\ op' = <<"fmt">>
    /\ ret' = StrVal(fmt)
    /\ since' = Same
    /\ UNCHANGED <<platform, app_name, given, env, home, tmp>>

Next ==
    \/ \E key \in EnvKeys, value \in EnvValues(platform) : set_var(key, value)
    \/ \E key \in EnvKeys : remove_var(key)
    \/ \E h \in HomeDirs(platform) : change_home(h)
    \/ \E xdg \in XdgDir : call_xdg_dir(xdg)
    \/ call_user_data_dir
    \/ call_temp_dir
    \/ call_fmt

Spec == Init /\ [][Next]_vars

----------------------------------------------------------------------------
(* What the claims speak of *)

\* the last call was o, and the environment is as it was at that call
Called(o) == op = o /\ since = Same

IsSet(key) == env[key] # Unset

\* an environment entry that is unset or holds valid Unicode
WellFormed(entry) == entry = Unset \/ is_unicode(entry[2])

\* the variable is set to a value env::var yields: valid Unicode
Yields(key) == IsSet(key) /\ is_unicode(env[key][2])

KeyOf(c) ==
    CASE c = "Data" -> "XDG_DATA_HOME"
      [] c = "Config" -> "XDG_CONFIG_HOME"
      [] c = "Cache" -> "XDG_CACHE_HOME"

DotLocalShare == <<".", "l", "o", "c", "a", "l", "/", "s", "h", "a", "r", "e">>
DotConfig == <<".", "c", "o", "n", "f", "i", "g">>
DotCache == <<".", "c", "a", "c", "h", "e">>

SubPathOf(c) ==
    CASE c = "Data" -> DotLocalShare
      [] c = "Config" -> DotConfig
      [] c = "Cache" -> DotCache

Seps == IF platform = "unix" THEN {"/"} ELSE {"/", "\\"}

EndsWithSep(p) == Len(p) > 0 /\ p[Len(p)] \in Seps

\* neither a root nor a drive prefix: a name that is appended to any base
PlainRelative(n) == Len(n) = 0 \/ (n[1] \notin Seps /\ n[1] # "C:")

\* an absolute path: rooted, and on Windows behind a drive prefix
Absolute(n) ==
    IF platform = "unix" THEN Len(n) > 0 /\ n[1] = "/"
    ELSE Len(n) > 1 /\ n[1] = "C:" /\ n[2] \in Seps

\* the base directory the fallback chain selects for category c, as the code
\* resolves it: the override if env::var yields it, else HOME's conventional
\* subdirectory (Unix-like) or APPDATA (Windows)
BaseOf(c) ==
    IF Yields(KeyOf(c)) THEN Some(env[KeyOf(c)][2])
    ELSE IF platform = "unix"
         THEN IF home = None THEN None
              ELSE Some(join(platform, home[2], SubPathOf(c)))
         ELSE IF Yields("APPDATA") THEN Some(env["APPDATA"][2]) ELSE None

Resolved(o) ==
    CASE o[1] = "xdg_dir" ->
            IF BaseOf(o[2]) = None THEN None
            ELSE Some(join(platform, BaseOf(o[2])[2], app_name))
      [] o[1] = "user_data_dir" ->
            IF platform = "unix"
            THEN IF home = None THEN None
                 ELSE Some(join(platform, home[2], <<".">> \o app_name))
            ELSE IF Yields("APPDATA")
                 THEN Some(join(platform, env["APPDATA"][2], app_name))
                 ELSE None
      [] o[1] = "temp_dir" -> PathVal(join(platform, tmp, app_name))
      [] o[1] = "fmt" -> StrVal(given)

----------------------------------------------------------------------------
(* Claims *)

\* C1 (as claimed): whenever the category's variable is set, to any value v,
\* xdg_dir(c) returns Some(v joined with the application name), whatever the
\* home directory and the other variables are.
C1_OverrideAnyValue ==
    \A c \in XdgDir :
        (Called(<<"xdg_dir", c>>) /\ IsSet(KeyOf(c)))
            => ret = Some(join(platform, env[KeyOf(c)][2], app_name))

\* C2: on a Unix-like platform with the category's variable unset, xdg_dir
\* returns None when there is no home directory, and otherwise the home
\* directory joined with .local/share (Data), .config (Config) or .cache
\* (Cache) and then with the application name; for a home directory without
\* a trailing separator and a name that is appended, that is the text
\* h/<subpath>/n.
C2_UnixFallback ==
    \A c \in XdgDir :
        (platform = "unix" /\ Called(<<"xdg_dir", c>>) /\ ~IsSet(KeyOf(c)))
            => /\ home = None => ret = None
               /\ home # None =>
                    ret = Some(join(platform, join(platform, home[2], SubPathOf(c)),
                                    app_name))
               /\ (home # None /\ ~EndsWithSep(home[2]) /\ PlainRelative(app_name))
                    => ret = Some(home[2] \o <<"/">> \o SubPathOf(c) \o <<"/">>
                                  \o app_name)

C2_Witness ==
    /\ platform = "unix"
    /\ Called(<<"xdg_dir", "Config">>)
    /\ ~IsSet("XDG_CONFIG_HOME")
    /\ home = Some(<<"/", "h">>)
    /\ app_name = <<"a">>
    /\ ret = Some(<<"/", "h", "/", ".", "c", "o", "n", "f", "i", "g", "/", "a">>)

\* C3 (as claimed): on Windows the result of xdg_dir(c) does not depend on
\* the category's variable: it is what APPDATA alone determines.
C3_WindowsIgnoresXdg ==
    \A c \in XdgDir :
        (platform = "windows" /\ Called(<<"xdg_dir", c>>))
            => ret = IF Yields("APPDATA")
                     THEN Some(join(platform, env["APPDATA"][2], app_name))
                     ELSE None

\* C3 (amended): on Windows the category's variable is consulted first, as on
\* Unix-like platforms: when env::var yields its value v, xdg_dir(c) returns
\* Some(v joined with the application name) whatever APPDATA is, and only
\* otherwise is the result what APPDATA determines.
C3_WindowsConsultsXdg ==
    \A c \in XdgDir :
        (platform = "windows" /\ Called(<<"xdg_dir", c>>))
            => /\ Yields(KeyOf(c)) =>
                    ret = Some(join(platform, env[KeyOf(c)][2], app_name))
               /\ (Yields(KeyOf(c)) /\ ~EndsWithSep(env[KeyOf(c)][2])
                     /\ env[KeyOf(c)][2] # <<>> /\ PlainRelative(app_name))
                    => ret = Some(env[KeyOf(c)][2] \o <<"\\">> \o app_name)
               /\ ~Yields(KeyOf(c)) =>
                    ret = IF Yields("APPDATA")
                          THEN Some(join(platform, env["APPDATA"][2], app_name))
                          ELSE None

C3_Witness ==
    /\ platform = "windows"
    /\ Called(<<"xdg_dir", "Data">>)
    /\ env["XDG_DATA_HOME"] = Set(<<"C:", "\\", "x">>)
    /\ env["APPDATA"] = Set(<<>>)
    /\ app_name = <<"a">>
    /\ ret = Some(<<"C:", "\\", "x", "\\", "a">>)

\* C4 (as claimed): on Windows with the category's variable unset, xdg_dir(c)
\* returns Some(a joined with the application name) for every category when
\* APPDATA is set to a, and None when APPDATA is unset.
C4_WindowsAppData ==
    \A c \in XdgDir :
        (platform = "windows" /\ Called(<<"xdg_dir", c>>) /\ ~IsSet(KeyOf(c)))
            => ret = IF IsSet("APPDATA")
                     THEN Some(join(platform, env["APPDATA"][2], app_name))
                     ELSE None

\* C5: temp_dir always returns a path, never an absent value: the temp root
\* joined with the application name, whatever the variables and the home
\* directory are; for a name that is appended, that is the text of the temp
\* root, one separator unless the root ends with one, and the name.
C5_TempDirTotal ==
    op = <<"temp_dir">>
        => /\ ret[1] = "PathBuf"
           /\ ret[2] = join(platform, tmp, app_name)
           /\ (PlainRelative(app_name) /\ EndsWithSep(tmp)) => ret[2] = tmp \o app_name
           /\ (PlainRelative(app_name) /\ ~EndsWithSep(tmp))
                => ret[2] = tmp \o <<MAIN_SEP(platform)>> \o app_name

C5_Witness ==
    /\ platform = "unix"
    /\ op = <<"temp_dir">>
    /\ home = None
    /\ \A key \in EnvKeys : ~IsSet(key)
    /\ tmp = <<"/", "t">>
    /\ app_name = <<"a">>
    /\ ret = PathVal(<<"/", "t", "/", "a">>)

\* C6 (as claimed): user_data_dir returns, on Unix-like platforms, the home
\* directory joined with "." + name when there is a home directory and None
\* otherwise; on Windows, APPDATA joined with the name when APPDATA is set
\* and None otherwise; the XDG_* variables play no part.
C6_UserDataDir ==
    Called(<<"user_data_dir">>)
        => ret = IF platform = "unix"
                 THEN IF home = None THEN None
                      ELSE Some(join(platform, home[2], <<".">> \o app_name))
                 ELSE IF IsSet("APPDATA")
                      THEN Some(join(platform, env["APPDATA"][2], app_name))
                      ELSE None

\* C7 (as claimed, the sensitivity clause): when the category's variable is
\* changed between two calls of xdg_dir for that category, the second call
\* returns a result different from the first.  (Stated for a change from and
\* to an entry that is unset or valid Unicode.)
C7_ChangeAlwaysChangesResult ==
    [][\A c \in XdgDir :
          (/\ op = <<"xdg_dir", c>> /\ since[1] = "own"
           /\ WellFormed(since[2]) /\ WellFormed(env[KeyOf(c)])
           /\ op' = op /\ since' = Same)
              => ret' # ret]_vars

\* C7 (amended): nothing is cached.  Every call returns what the environment
\* at that call determines; a call repeated with no change in between returns
\* the same value; and after the category's variable is changed the next call
\* returns what the new value determines, which differs from the previous
\* result exactly when the two resolutions differ.
C7_NoCaching ==
    /\ [](Called(op) /\ op # NoCall => ret = Resolved(op))
    /\ [][/\ (since' = Same /\ op' # NoCall) => ret' = Resolved(op)'
          /\ (since = Same /\ since' = Same /\ op' = op) => ret' = ret
          /\ \A c \in XdgDir :
                (op = <<"xdg_dir", c>> /\ since[1] = "own" /\ op' = op /\ since' = Same)
                    => (ret' # ret <=> Resolved(op)' # ret)]_vars

C7_Witness ==
    /\ op = <<"xdg_dir", "Config">>
    /\ since = Own(Unset)
    /\ env["XDG_CONFIG_HOME"] = Set(<<"/", "x">>)
    /\ ret # Resolved(op)

\* C8: a resolver call changes neither the environment (variables, home
\* directory, temp root) nor the handle: the application name stays the one
\* given to new(), and the Display rendering returns it.
C8_ResolversReadOnly ==
    /\ [](app_name = given /\ (op = <<"fmt">> => ret = StrVal(given)))
    /\ [][since' = Same => UNCHANGED <<env, home, tmp, platform, app_name, given>>]_vars

C8_Witness ==
    /\ op = <<"fmt">>
    /\ since = Same
    /\ given = <<"a">>
    /\ ret = StrVal(<<"a">>)
    /\ IsSet("XDG_DATA_HOME")
    /\ home # None

C10_AbsoluteNameReplacesBase ==
    Absolute(app_name)
        => /\ (op[1] = "xdg_dir" /\ ret # None) => ret = Some(app_name)
           /\ op = <<"temp_dir">> => ret = PathVal(app_name)

C10_Witness ==
    /\ platform = "unix"
    /\ Called(<<"xdg_dir", "Data">>)
    /\ env["XDG_DATA_HOME"] = Set(<<"/", "x">>)
    /\ app_name = <<"/", "a">>
    /\ ret = Some(<<"/", "a">>)

====
